---- MODULE Spec2Model ----
(***************************************************************************)
(* Model of the logrus Stackdriver formatter (formatter.go).               *)
(*                                                                         *)
(* A Formatter is built once by NewFormatter from a list of options and    *)
(* is then used to format log records: ToEntry maps a logrus entry to a    *)
(* Stackdriver Entry, Format marshals that Entry to JSON and appends a     *)
(* newline.  Go strings are TLA+ strings; Go interface{} values are        *)
(* tagged records; Go pointers to structs the formatter only reads are     *)
(* either NilPtr or Ptr(value); Go maps are addresses into a heap; a JSON  *)
(* document is the tree a generic JSON parser would return for it.         *)
(***************************************************************************)
EXTENDS FiniteSets, Integers, Sequences, TLC

(***************************************************************************)
(* Bounds of the model.                                                    *)
(***************************************************************************)
\* largest number of fields a record carries
MaxFields == 2

(***************************************************************************)
(* Go values held in a logrus.Fields map (map[string]interface{}).         *)
(***************************************************************************)
StringVal(s) == [t |-> "string", s |-> s]
\* a value implementing the error interface; msg is what Error() returns
ErrorVal(m) == [t |-> "error", msg |-> m]
IntVal(n) == [t |-> "int", n |-> n]
\* a *HTTPRequest pointing to the struct r
ReqVal(r) == [t |-> "*HTTPRequest", req |-> r]
\* a map[string]interface{} of strings, as the sequence of its <<key, value>>
\* pairs in key order (the order in which fmt and encoding/json visit a map)
MapVal(pairs) == [t |-> "map", m |-> pairs]

\* Go pointers
NilPtr == [nil |-> TRUE]
Ptr(v) == [nil |-> FALSE, val |-> v]

\* the empty map / the JSON object with no key
EmptyMap == [k \in {} |-> ""]

Delete(m, k) == [x \in DOMAIN m \ {k} |-> m[x]]

(***************************************************************************)
(* formatter.go: constants and types.                                      *)
(***************************************************************************)
severityDebug == "DEBUG"
severityInfo == "INFO"
severityWarning == "WARNING"
severityError == "ERROR"
severityCritical == "CRITICAL"
severityAlert == "ALERT"

\* logrus levels, by name; "trace" is a logrus level the table does not list
Levels == {"panic", "fatal", "error", "warning", "info", "debug", "trace"}

levelsToSeverity ==
    [l \in Levels |->
        CASE l = "debug" -> severityDebug
          [] l = "info" -> severityInfo
          [] l = "warning" -> severityWarning
          [] l = "error" -> severityError
          [] l = "fatal" -> severityCritical
          [] l = "panic" -> severityAlert
          [] OTHER -> ""]

KeyTrace == "trace"
KeySpanID == "spanID"
KeyHTTPRequest == "httpRequest"
KeyLogID == "logID"
\* logrus.ErrorKey
ErrorKey == "error"

HTTPRequestFields ==
    <<"RequestMethod", "RequestURL", "RequestSize", "Status", "ResponseSize",
      "UserAgent", "RemoteIP", "ServerIP", "Referer", "Latency", "Protocol">>

\* the zero HTTPRequest struct
ZeroHTTPRequest == [k \in {HTTPRequestFields[i] : i \in 1..Len(HTTPRequestFields)} |-> ""]

(***************************************************************************)
(* Construction: options and NewFormatter.                                 *)
(***************************************************************************)
LogrusPkg == "github.com/sirupsen/logrus"

\* import path and source directory of the formatter package
FormatterPkg == "github.com/shortcut/logrus-stackdriver-formatter"
FormatterDir == "/go/src/" \o FormatterPkg

WithService(n) == [opt |-> "WithService", v |-> n]
WithVersion(v) == [opt |-> "WithVersion", v |-> v]
WithProjectID(i) == [opt |-> "WithProjectID", v |-> i]
WithStackSkip(v) == [opt |-> "WithStackSkip", v |-> v]

\* option(&fmtr)
ApplyOption(fmtr, o) ==
    CASE o.opt = "WithService" -> [fmtr EXCEPT !.Service = o.v]
      [] o.opt = "WithVersion" -> [fmtr EXCEPT !.Version = o.v]
      [] o.opt = "WithProjectID" -> [fmtr EXCEPT !.ProjectID = o.v]
      [] o.opt = "WithStackSkip" -> [fmtr EXCEPT !.StackSkip = Append(@, o.v)]

RECURSIVE ApplyOptions(_, _)
ApplyOptions(fmtr, options) ==
    IF options = << >> THEN fmtr
    ELSE ApplyOptions(ApplyOption(fmtr, Head(options)), Tail(options))

NewFormatter(options) ==
    ApplyOptions([Service |-> "", Version |-> "", ProjectID |-> "",
                  StackSkip |-> <<LogrusPkg>>], options)

(***************************************************************************)
(* Go string functions used by the formatter and by go-stack.              *)
(***************************************************************************)
\* s[a:b]
Slice(s, a, b) == SubSeq(s, a + 1, b)

RECURSIVE IndexFrom(_, _, _)
IndexFrom(s, sub, i) ==
    IF i + Len(sub) > Len(s) THEN -1
    ELSE IF Slice(s, i, i + Len(sub)) = sub THEN i
    ELSE IndexFrom(s, sub, i + 1)

\* strings.Index
StringsIndex(s, sub) == IndexFrom(s, sub, 0)

RECURSIVE LastIndexFrom(_, _, _)
LastIndexFrom(s, sub, i) ==
    IF i < 0 THEN -1
    ELSE IF Slice(s, i, i + Len(sub)) = sub THEN i
    ELSE LastIndexFrom(s, sub, i - 1)

\* strings.LastIndex
StringsLastIndex(s, sub) == LastIndexFrom(s, sub, Len(s) - Len(sub))

\* strings.SplitN(s, sep, 2)
SplitN2(s, sep) ==
    LET i == StringsIndex(s, sep)
    IN  IF i = -1 THEN <<s>>
        ELSE <<Slice(s, 0, i), Slice(s, i + Len(sep), Len(s))>>

Digits == "0123456789"

\* strconv.ParseInt(s, 10, 64) with the error dropped: the value of a decimal
\* numeral, and 0 for a string that is not one
RECURSIVE ParseDigits(_, _)
ParseDigits(s, acc) ==
    IF s = "" THEN acc
    ELSE LET d == StringsIndex(Digits, Head(s))
         IN  IF d = -1 THEN -1 ELSE ParseDigits(Tail(s), 10 * acc + d)

ParseInt(s) ==
    LET neg == s # "" /\ Head(s) = "-"
        body == IF s # "" /\ Head(s) \in {"-", "+"} THEN Tail(s) ELSE s
        n == IF body = "" THEN -1 ELSE ParseDigits(body, 0)
    IN  IF n = -1 THEN 0 ELSE IF neg THEN 0 - n ELSE n

\* the characters url.QueryEscape leaves alone
Unreserved ==
    "abcdefghijklmnopqrstuvwxyzABCDEFGHIJKLMNOPQRSTUVWXYZ0123456789-_.~"

\* shouldEscape(c, encodeQueryComponent)
UnreservedChars == {Slice(Unreserved, i, i + 1) : i \in 0..(Len(Unreserved) - 1)}
shouldEscape(c) == c \notin UnreservedChars

upperhex == "0123456789ABCDEF"

\* byte value of the characters outside Unreserved that the inputs contain
ByteOf(c) ==
    CASE c = " " -> 32
      [] c = "#" -> 35
      [] c = "%" -> 37
      [] c = "&" -> 38
      [] c = "+" -> 43
      [] c = "/" -> 47
      [] c = ":" -> 58
      [] c = "=" -> 61
      [] c = "?" -> 63

\* url.QueryEscape
RECURSIVE QueryEscape(_)
QueryEscape(s) ==
    IF s = "" THEN ""
    ELSE LET c == Head(s)
             e == IF ~shouldEscape(c) THEN c
                  ELSE IF c = " " THEN "+"
                  ELSE LET hi == ByteOf(c) \div 16
                           lo == ByteOf(c) % 16
                       IN  "%" \o Slice(upperhex, hi, hi + 1) \o Slice(upperhex, lo, lo + 1)
         IN  e \o QueryEscape(Tail(s))

(***************************************************************************)
(* go-stack: a Call wraps a runtime.Frame; the zero Call is what           *)
(* stack.Caller returns past the end of the stack.                         *)
(***************************************************************************)
Frame(function, file, line) == [Function |-> function, File |-> file, Line |-> line]

ZeroCall == Frame("", "", 0)

\* stack.Caller(i): stack[1] is the function that calls stack.Caller
Caller(stack, i) == IF i + 1 <= Len(stack) THEN stack[i + 1] ELSE ZeroCall

\* c.MarshalText() fails with ErrNoFunc on the zero Call
MarshalTextFails(c) == c = ZeroCall

\* fmt.Sprintf("%+k", c): the import path of the function's package
FormatPlusK(c) ==
    IF c = ZeroCall THEN "%!k(NOFUNC)"
    ELSE LET name == c.Function
             i == StringsLastIndex(name, "/")
             start == IF i # -1 THEN i + 1 ELSE 0
             j == StringsIndex(Slice(name, start, Len(name)), ".")
             end == IF j # -1 THEN start + j ELSE Len(name)
         IN  Slice(name, 0, end)

\* fmt.Sprintf("%n", c): the function name without its package
FormatN(c) ==
    IF c = ZeroCall THEN "%!n(NOFUNC)"
    ELSE LET name == c.Function
             i == StringsLastIndex(name, "/")
             n1 == IF i # -1 THEN Slice(name, i + 1, Len(name)) ELSE name
             j == StringsIndex(n1, ".")
         IN  IF j # -1 THEN Slice(n1, j + 1, Len(n1)) ELSE n1

\* fmt.Sprintf("%+s", c): the file path relative to the package's source root
FormatPlusS(c) ==
    IF c = ZeroCall THEN "%!s(NOFUNC)"
    ELSE LET e == StringsLastIndex(c.Function, "/")
             pre == IF e = -1 THEN "" ELSE Slice(c.Function, 0, e)
             lastSep == StringsLastIndex(c.File, "/")
             post == IF lastSep = -1 THEN c.File
                     ELSE Slice(c.File,
                                StringsLastIndex(Slice(c.File, 0, lastSep), "/") + 1,
                                Len(c.File))
         IN  IF pre = "" THEN post ELSE pre \o "/" \o post

\* fmt.Sprintf("%d", c): the line number
FormatD(c) == IF c = ZeroCall THEN "%!d(NOFUNC)" ELSE ToString(c.Line)

(***************************************************************************)
(* Formatter.errorOrigin                                                   *)
(***************************************************************************)
\* skip(pkg) comparing with the first entry of the skip list alone
skipFirstOnly(f, pkg) == pkg = f.StackSkip[1]

\* the closure skip(pkg)
skip(f, pkg) == \E i \in 1..Len(f.StackSkip) : pkg = f.StackSkip[i]

\* the package path compared with the skip list
StripVendor(pkg) ==
    LET parts == SplitN2(pkg, "/vendor/")
    IN  parts[Len(parts)]

\* first frame offset of the walk
StartSkip == 3

RECURSIVE errorOriginFrom(_, _, _)
errorOriginFrom(f, stack, i) ==
    LET c == Caller(stack, i)
    IN  IF MarshalTextFails(c) THEN [c |-> ZeroCall, err |-> "nil"]
        ELSE IF ~skip(f, StripVendor(FormatPlusK(c))) THEN [c |-> c, err |-> "nil"]
        ELSE errorOriginFrom(f, stack, i + 1)

\* f.errorOrigin() called with the given stack, errorOrigin's own frame first
errorOrigin(f, stack) == errorOriginFrom(f, stack, StartSkip)

(***************************************************************************)
(* fmt.Sprintf("%s", v) for the values a field map holds.                  *)
(***************************************************************************)
RECURSIVE JoinFields(_, _)
JoinFields(r, names) ==
    IF names = << >> THEN ""
    ELSE r[Head(names)]
         \o (IF Len(names) > 1 THEN " " ELSE "")
         \o JoinFields(r, Tail(names))

RECURSIVE JoinPairs(_)
JoinPairs(pairs) ==
    IF pairs = << >> THEN ""
    ELSE Head(pairs)[1] \o ":" \o Head(pairs)[2]
         \o (IF Len(pairs) > 1 THEN " " ELSE "")
         \o JoinPairs(Tail(pairs))

SprintfS(v) ==
    CASE v.t = "string" -> v.s
      [] v.t = "error" -> v.msg
      [] v.t = "int" -> "%!s(int=" \o ToString(v.n) \o ")"
      [] v.t = "*HTTPRequest" -> "&{" \o JoinFields(v.req, HTTPRequestFields) \o "}"
      [] v.t = "map" -> "map[" \o JoinPairs(v.m) \o "]"

(***************************************************************************)
(* Memory.  A Go map is a reference: e.Data and ee.Context.Data hold the   *)
(* address of a map, and heap gives the map at each address.  A call runs  *)
(* on a memory m: m.f is the Formatter the receiver f points to, m.e the   *)
(* logrus.Entry the argument e points to, m.heap the maps, and m.ee the    *)
(* local variable ee of ToEntry.  Every statement takes a memory to the    *)
(* memory it leaves.                                                       *)
(***************************************************************************)
Addresses == {"fields", "data"}

\* the address make(logrus.Fields, n) returns: one that holds no map yet
NewAddress(heap) == CHOOSE a \in Addresses : a \notin DOMAIN heap

\* the zero Entry
ZeroEntry ==
    [LogName |-> "", Timestamp |-> "", HTTPRequest |-> NilPtr, Trace |-> "",
     SpanID |-> "", ServiceContext |-> NilPtr, Message |-> "", Severity |-> "",
     Context |-> NilPtr, SourceLocation |-> NilPtr]

\* the Entry ent with the map its context data refers to in place of the address
Load(heap, ent) ==
    IF ent.Context.nil THEN ent ELSE [ent EXCEPT !.Context.val.Data = heap[@]]

(***************************************************************************)
(* replaceErrors and Formatter.ToEntry                                     *)
(***************************************************************************)
\* replaceErrors writing the texts into the source map and returning it
replaceErrorsInPlace(heap, source) ==
    [heap |-> [heap EXCEPT ![source] =
                  [k \in DOMAIN @ |-> IF @[k].t = "error" THEN StringVal(@[k].msg) ELSE @[k]]],
     data |-> source]

\* replaceErrors without the case for errors
replaceErrorsKeepsErrors(heap, source) ==
    LET data == NewAddress(heap)
    IN  [heap |-> (data :> heap[source]) @@ heap, data |-> data]

\* replaceErrors(source): the heap it leaves and the address it returns
replaceErrors(heap, source) ==
    LET data == NewAddress(heap)
    IN  [heap |-> (data :> [k \in DOMAIN heap[source] |->
                              IF heap[source][k].t = "error"
                              THEN StringVal(heap[source][k].msg)
                              ELSE heap[source][k]])
                  @@ heap,
         data |-> data]

\* the Entry literal ToEntry starts from
NewEntry(m) ==
    LET r == replaceErrors(m.heap, m.e.Data)
    IN  [m EXCEPT
           !.heap = r.heap,
           !.ee = [LogName |-> "",
                   Timestamp |-> "",
                   HTTPRequest |-> NilPtr,
                   Trace |-> "",
                   SpanID |-> "",
                   ServiceContext |-> Ptr([Service |-> m.f.Service,
                                           Version |-> m.f.Version]),
                   Message |-> m.e.Message,
                   Severity |-> levelsToSeverity[m.e.Level],
                   Context |-> Ptr([Data |-> r.data,
                                    ReportLocation |-> NilPtr,
                                    HTTPRequest |-> NilPtr]),
                   SourceLocation |-> NilPtr]]

\* delete(ee.Context.Data, k)
DeleteData(m, k) == [m EXCEPT !.heap[m.ee.Context.val.Data] = Delete(@, k)]

\* ExtractTrace without the type assertion
ExtractTraceAnyType(m) ==
    LET data == m.heap[m.e.Data]
    IN  IF KeyTrace \in DOMAIN data
        THEN DeleteData([m EXCEPT !.ee.Trace = SprintfS(data[KeyTrace])], KeyTrace)
        ELSE m

ExtractTrace(m) ==
    LET data == m.heap[m.e.Data]
    IN  IF KeyTrace \in DOMAIN data /\ data[KeyTrace].t = "string"
        THEN DeleteData([m EXCEPT !.ee.Trace = data[KeyTrace].s], KeyTrace)
        ELSE m

\* ExtractSpanID without the delete
ExtractSpanIDKeepsKey(m) ==
    LET data == m.heap[m.e.Data]
    IN  IF KeySpanID \in DOMAIN data /\ data[KeySpanID].t = "string"
        THEN [m EXCEPT !.ee.SpanID = data[KeySpanID].s]
        ELSE m

ExtractSpanID(m) ==
    LET data == m.heap[m.e.Data]
    IN  IF KeySpanID \in DOMAIN data /\ data[KeySpanID].t = "string"
        THEN DeleteData([m EXCEPT !.ee.SpanID = data[KeySpanID].s], KeySpanID)
        ELSE m

ExtractHTTPRequest(m) ==
    LET data == m.heap[m.e.Data]
    IN  IF KeyHTTPRequest \in DOMAIN data /\ data[KeyHTTPRequest].t = "*HTTPRequest"
        THEN LET req == Ptr(data[KeyHTTPRequest].req)
             IN  DeleteData([m EXCEPT !.ee.HTTPRequest = req,
                                      !.ee.Context.val.HTTPRequest = req],
                            KeyHTTPRequest)
        ELSE m

ExtractLogID(m) ==
    LET data == m.heap[m.e.Data]
    IN  IF KeyLogID \in DOMAIN data /\ m.f.ProjectID # "" /\ data[KeyLogID].t = "string"
        THEN DeleteData([m EXCEPT !.ee.LogName = "projects/" \o m.f.ProjectID \o "/logs/"
                                                    \o QueryEscape(data[KeyLogID].s)],
                        KeyLogID)
        ELSE m

\* now is time.Now().UTC().Format(time.RFC3339Nano)
StampTime(m, skipTs, now) ==
    IF ~skipTs THEN [m EXCEPT !.ee.Timestamp = now] ELSE m

\* AppendError without the delete
AppendErrorKeepsKey(m) ==
    LET data == m.heap[m.ee.Context.val.Data]
    IN  IF ErrorKey \in DOMAIN data
        THEN [m EXCEPT !.ee.Message = m.e.Message \o ": " \o SprintfS(data[ErrorKey])]
        ELSE [m EXCEPT !.ee.Message = m.e.Message]

\* the message of an error-severity entry
AppendError(m) ==
    LET data == m.heap[m.ee.Context.val.Data]
    IN  IF ErrorKey \in DOMAIN data
        THEN DeleteData([m EXCEPT !.ee.Message = m.e.Message \o ": "
                                                     \o SprintfS(data[ErrorKey])],
                        ErrorKey)
        ELSE [m EXCEPT !.ee.Message = m.e.Message]

\* the frames of the formatter's own functions at their call sites
errorOriginFrame ==
    Frame(FormatterPkg \o ".(*Formatter).errorOrigin", FormatterDir \o "/formatter.go", 158)
ToEntryFrame ==
    Frame(FormatterPkg \o ".(*Formatter).ToEntry", FormatterDir \o "/formatter.go", 252)
FormatFrame ==
    Frame(FormatterPkg \o ".(*Formatter).Format", FormatterDir \o "/formatter.go", 269)

\* the location errorOrigin's Call c stands for
NewReportLocation(c) ==
    Ptr([FilePath |-> FormatPlusS(c),
         LineNumber |-> ParseInt(FormatD(c)),
         FunctionName |-> FormatN(c)])

\* ee.Context.ReportLocation = location; ee.SourceLocation = location
AssignLocation(m, location) ==
    [m EXCEPT !.ee.Context.val.ReportLocation = location,
              !.ee.SourceLocation = location]

\* the report location of an error-severity entry; stack is that of ToEntry's caller
SetLocation(m, stack) ==
    LET r == errorOrigin(m.f, <<errorOriginFrame, ToEntryFrame>> \o stack)
    IN  IF r.err = "nil" THEN AssignLocation(m, NewReportLocation(r.c)) ELSE m

\* the switch on severity with a case for WARNING
ErrorReportingFromWarning(m, stack) ==
    IF m.ee.Severity \in {severityWarning, severityError, severityCritical, severityAlert}
    THEN SetLocation(AppendError(m), stack)
    ELSE m

\* the switch on severity
ErrorReporting(m, stack) ==
    IF m.ee.Severity \in {severityError, severityCritical, severityAlert}
    THEN SetLocation(AppendError(m), stack)
    ELSE m

\* f.ToEntry(e) called from a function whose stack is stack (its own frame
\* first): the memory it leaves, m.ee being the Entry it returns
ToEntry(m, stack, skipTs, now) ==
    LET m1 == ExtractTrace(NewEntry(m))
        m2 == ExtractSpanID(m1)
        m3 == ExtractHTTPRequest(m2)
        m4 == ExtractLogID(m3)
        m5 == StampTime(m4, skipTs, now)
    IN  ErrorReporting(m5, stack)

(***************************************************************************)
(* encoding/json: json.Marshal of an Entry, as the tree a generic JSON     *)
(* parser returns for the document.                                        *)
(***************************************************************************)
JStr(s) == [j |-> "string", s |-> s]
JNum(n) == [j |-> "number", n |-> n]
JObj(o) == [j |-> "object", o |-> o]
JNull == [j |-> "null"]

\* a string field tagged omitempty
OmitStr(key, s) == IF s = "" THEN EmptyMap ELSE key :> JStr(s)

\* an int field tagged omitempty
OmitInt(key, n) == IF n = 0 THEN EmptyMap ELSE key :> JNum(n)

\* a pointer field tagged omitempty: left out only when the pointer p is nil;
\* v is the encoding of what p points to
OmitNil(key, p, v) == IF p.nil THEN EmptyMap ELSE key :> v

\* json tags of HTTPRequest
HTTPRequestTags ==
    <<"requestMethod", "requestUrl", "requestSize", "status", "responseSize",
      "userAgent", "remoteIp", "serverIp", "referer", "latency", "protocol">>

RECURSIVE MarshalHTTPRequestFrom(_, _)
MarshalHTTPRequestFrom(r, i) ==
    IF i > Len(HTTPRequestFields) THEN EmptyMap
    ELSE OmitStr(HTTPRequestTags[i], r[HTTPRequestFields[i]])
         @@ MarshalHTTPRequestFrom(r, i + 1)

MarshalHTTPRequest(r) == JObj(MarshalHTTPRequestFrom(r, 1))

MarshalServiceContext(sc) ==
    JObj(OmitStr("service", sc.Service) @@ OmitStr("version", sc.Version))

MarshalReportLocation(l) ==
    JObj(OmitStr("filePath", l.FilePath)
         @@ OmitInt("lineNumber", l.LineNumber)
         @@ OmitStr("functionName", l.FunctionName))

\* a value of the data map
MarshalValue(v) ==
    CASE v.t = "string" -> JStr(v.s)
      [] v.t = "int" -> JNum(v.n)
      [] v.t = "*HTTPRequest" -> MarshalHTTPRequest(v.req)
      [] v.t = "map" -> JObj([k \in {v.m[i][1] : i \in 1..Len(v.m)} |->
                                JStr(v.m[CHOOSE i \in 1..Len(v.m) : v.m[i][1] = k][2])])
      [] v.t = "error" -> JObj(EmptyMap)

\* the data map without omitempty
MarshalDataKeepsEmpty(d) == "data" :> JObj([k \in DOMAIN d |-> MarshalValue(d[k])])

\* the data map, tagged omitempty: left out when it has no entry
MarshalData(d) ==
    IF DOMAIN d = {} THEN EmptyMap
    ELSE "data" :> JObj([k \in DOMAIN d |-> MarshalValue(d[k])])

MarshalContext(c) ==
    JObj(MarshalData(c.Data)
         @@ OmitNil("reportLocation", c.ReportLocation,
                    MarshalReportLocation(c.ReportLocation.val))
         @@ OmitNil("httpRequest", c.HTTPRequest,
                    MarshalHTTPRequest(c.HTTPRequest.val)))

\* json.Marshal(ee)
MarshalEntry(ee) ==
    JObj(OmitStr("logName", ee.LogName)
         @@ OmitStr("timestamp", ee.Timestamp)
         @@ OmitNil("httpRequest", ee.HTTPRequest,
                    MarshalHTTPRequest(ee.HTTPRequest.val))
         @@ OmitStr("trace", ee.Trace)
         @@ OmitStr("spanId", ee.SpanID)
         @@ OmitNil("serviceContext", ee.ServiceContext,
                    MarshalServiceContext(ee.ServiceContext.val))
         @@ OmitStr("message", ee.Message)
         @@ OmitStr("severity", ee.Severity)
         @@ OmitNil("context", ee.Context, MarshalContext(ee.Context.val))
         @@ OmitNil("sourceLocation", ee.SourceLocation,
                    MarshalReportLocation(ee.SourceLocation.val)))

\* f.Format(e) called from a function whose stack is stack: the memory it
\* leaves, the document, the byte appended to it, and the error returned
\* (json.Marshal follows ee.Context.Data to the map, and encodes every value
\* a field map of this model holds)
Format(m, stack, skipTs, now) ==
    LET r == ToEntry(m, <<FormatFrame>> \o stack, skipTs, now)
    IN  [m |-> r, json |-> MarshalEntry(Load(r.heap, r.ee)), tail |-> "\n", err |-> "nil"]

(***************************************************************************)
(* Inputs: the records a caller builds, the stacks it logs from, the       *)
(* option lists a formatter is built with.                                 *)
(***************************************************************************)
GetRequest == [ZeroHTTPRequest EXCEPT !.RequestMethod = "GET"]

Keys == {ErrorKey, KeyTrace, KeySpanID, KeyHTTPRequest, KeyLogID, "foo"}

\* the values tried under each key: the shape the formatter looks for and others
FieldValues(k) ==
    CASE k = ErrorKey -> {ErrorVal("test error")}
      [] k = KeyTrace -> {StringVal("my-trace"), IntVal(0)}
      [] k = KeySpanID -> {StringVal("my-span"), ErrorVal("test error")}
      [] k = KeyHTTPRequest -> {ReqVal(GetRequest), MapVal(<<<<"method", "GET">>>>),
                                ErrorVal("test error")}
      [] k = KeyLogID -> {StringVal("my-id"), StringVal("my id/1"), IntVal(7)}
      [] k = "foo" -> {StringVal("bar")}

Messages == {"my log entry", ""}

\* what time.Now().UTC().Format(time.RFC3339Nano) returns at the first, the
\* second, ... call on an entry; calls past the last instant read the last
Times == <<"2020-10-12T12:26:00Z", "2020-10-12T12:26:01.5Z">>

WrapperPkg == "app/internal"

\* the frames above the formatter when an application logs directly
DirectStack ==
    <<Frame(LogrusPkg \o ".(*Entry).write", "/go/src/" \o LogrusPkg \o "/entry.go", 286),
      Frame(LogrusPkg \o ".(*Logger).Error", "/go/src/" \o LogrusPkg \o "/logger.go", 222),
      Frame("main.run", "/go/src/app/main.go", 64),
      Frame("runtime.main", "/usr/local/go/src/runtime/proc.go", 204)>>

\* the frames above the formatter when an application logs through the
\* wrapper, with a vendored logrus
WrappedStack ==
    <<Frame("app/vendor/" \o LogrusPkg \o ".(*Entry).write",
            "/go/src/app/vendor/" \o LogrusPkg \o "/entry.go", 286),
      Frame("app/vendor/" \o LogrusPkg \o ".(*Logger).Error",
            "/go/src/app/vendor/" \o LogrusPkg \o "/logger.go", 222),
      Frame(WrapperPkg \o ".(*LogWrapper).Error", "/go/src/app/internal/logger.go", 12),
      Frame("main.run", "/go/src/app/main.go", 30),
      Frame("runtime.main", "/usr/local/go/src/runtime/proc.go", 204)>>

\* the frames above the formatter when an application logs through a
\* vendored library that vendors logrus itself
NestedVendorStack ==
    <<Frame("app/vendor/lib/vendor/" \o LogrusPkg \o ".(*Entry).write",
            "/go/src/app/vendor/lib/vendor/" \o LogrusPkg \o "/entry.go", 286),
      Frame("app/vendor/lib/vendor/" \o LogrusPkg \o ".(*Logger).Error",
            "/go/src/app/vendor/lib/vendor/" \o LogrusPkg \o "/logger.go", 222),
      Frame("main.serve", "/go/src/app/serve.go", 41),
      Frame("runtime.main", "/usr/local/go/src/runtime/proc.go", 204)>>

Stacks == {DirectStack, WrappedStack, NestedVendorStack}

\* the ways a program sets the formatter up: the options it passes to
\* NewFormatter and whether it runs with timestamps suppressed
Setup(options, skipTs) == [options |-> options, skipTimestamp |-> skipTs]

Setups ==
    {Setup(<< >>, FALSE),
     Setup(<<WithService("test"), WithVersion("0.1")>>, TRUE),
     Setup(<<WithService("test"), WithVersion("0.1"), WithProjectID("my-project-id")>>,
           FALSE),
     Setup(<<WithService("test"), WithVersion("0.1"), WithStackSkip(WrapperPkg)>>, FALSE),
     Setup(<<WithProjectID("my-project-id"), WithStackSkip(WrapperPkg),
             WithStackSkip("main"), WithStackSkip("runtime")>>, FALSE)}

(***************************************************************************)
(* The state machine.  A caller builds a logrus entry field by field,      *)
(* logrus completes it at the log call, and the entry is then passed to    *)
(* ToEntry and Format any number of times, in any order.                   *)
(***************************************************************************)
VARIABLES
    f,              \* the Formatter
    skipTimestamp,  \* the package variable skipTimestamp
    entry,          \* the caller's logrus.Entry: Level, Message, the address Data
    heap,           \* the maps in memory, by address
    callers,        \* the call stack above the formatter at the log call
    pc,             \* "building", "logging", or the call that returned last
    clock,          \* the index in Times of the instant the next call reads
    returned,       \* the Entry the last call built
    out             \* the document and error the last call returned, if it was Format

vars == <<f, skipTimestamp, entry, heap, callers, pc, clock, returned, out>>

NoOutput == [json |-> JNull, tail |-> "", err |-> "nil"]

\* logrus.NewEntry(logger): the entry and the map its Data refers to
EmptyRecord == [Level |-> "panic", Message |-> "", Data |-> "fields"]
EmptyHeap == "fields" :> EmptyMap

Init ==
    /\ \E s \in Setups : /\ f = NewFormatter(s.options)
                         /\ skipTimestamp = s.skipTimestamp
    /\ entry = EmptyRecord
    /\ heap = EmptyHeap
    /\ callers = << >>
    /\ pc = "building"
    /\ clock = 1
    /\ returned = ZeroEntry
    /\ out = NoOutput

\* logrus: entry.WithField(k, v) / entry.WithError(err)
WithField(k, v) ==
    /\ pc = "building"
    /\ Cardinality(DOMAIN heap[entry.Data] \cup {k}) <= MaxFields
    /\ heap' = [heap EXCEPT ![entry.Data] = (k :> v) @@ @]
    /\ UNCHANGED <<f, skipTimestamp, entry, callers, pc, clock, returned, out>>

\* logrus: entry.Log(level, msg) from a function whose stack is stack
Log(level, msg, stack) ==
    /\ pc = "building"
    /\ entry' = [entry EXCEPT !.Level = level, !.Message = msg]
    /\ callers' = stack
    /\ pc' = "logging"
    /\ UNCHANGED <<f, skipTimestamp, heap, clock, returned, out>>

\* The memory a call starts on: the formatter, the caller's entry and its
\* map.  The map of the Entry a previous call returned is no longer referred
\* to once the caller takes the new result, and its address is free again.
Memory ==
    [f |-> f,
     e |-> entry,
     heap |-> [a \in {entry.Data} |-> heap[a]],
     ee |-> ZeroEntry]

\* When a call returns the memory m, the formatter, the caller's entry and
\* the maps are what the call left in it.
Returns(m) ==
    /\ f' = m.f
    /\ entry' = m.e
    /\ heap' = m.heap
    /\ returned' = m.ee

\* time passes between two calls
Tick == clock' = IF clock < Len(Times) THEN clock + 1 ELSE clock

\* f.ToEntry(e) called by the holder of the entry
CallToEntry ==
    /\ pc \in {"logging", "ToEntry", "Format"}
    /\ \E m \in {ToEntry(Memory, callers, skipTimestamp, Times[clock])} : Returns(m)
    /\ out' = NoOutput
    /\ pc' = "ToEntry"
    /\ Tick
    /\ UNCHANGED <<skipTimestamp, callers>>

\* f.Format(e) called by the logger (logrus: entry.log)
CallFormat ==
    /\ pc \in {"logging", "ToEntry", "Format"}
    /\ \E r \in {Format(Memory, callers, skipTimestamp, Times[clock])} :
          /\ Returns(r.m)
          /\ out' = [json |-> r.json, tail |-> r.tail, err |-> r.err]
    /\ pc' = "Format"
    /\ Tick
    /\ UNCHANGED <<skipTimestamp, callers>>

\* the caller drops the entry and its output and starts a new one
Discard ==
    /\ pc \in {"ToEntry", "Format"}
    /\ entry' = EmptyRecord
    /\ heap' = EmptyHeap
    /\ callers' = << >>
    /\ pc' = "building"
    /\ clock' = 1
    /\ returned' = ZeroEntry
    /\ out' = NoOutput
    /\ UNCHANGED <<f, skipTimestamp>>

Next ==
    \/ \E k \in Keys : \E v \in FieldValues(k) : WithField(k, v)
    \/ \E level \in Levels, msg \in Messages, stack \in Stacks : Log(level, msg, stack)
    \/ CallToEntry
    \/ CallFormat
    \/ Discard

Spec == Init /\ [][Next]_vars

(***************************************************************************)
(* Properties.                                                             *)
(***************************************************************************)
\* the caller's record as the caller reads it: the level, the message and
\* the fields in the map Data refers to
e == [entry EXCEPT !.Data = heap[@]]

\* the Entry the last call returned, with its context data
ee == Load(heap, returned)

\* ee is the Entry ToEntry returned for the record e
Called == pc \in {"ToEntry", "Format"}

\* out is the output Format returned for the record e
Formatted == pc = "Format"

\* the record carries an error under the error key
HasAttachedError == ErrorKey \in DOMAIN e.Data /\ e.Data[ErrorKey].t = "error"

ErrorLevels == {"error", "fatal", "panic"}

\* the context data of the returned Entry
ContextData == ee.Context.val.Data

\* the key holds a value of the shape ToEntry moves to a dedicated field
Extracted(k) ==
    /\ k \in DOMAIN e.Data
    /\ \/ k \in {KeyTrace, KeySpanID} /\ e.Data[k].t = "string"
       \/ k = KeyHTTPRequest /\ e.Data[k].t = "*HTTPRequest"
       \/ k = KeyLogID /\ e.Data[k].t = "string" /\ f.ProjectID # ""

\* C1 as stated: for a record with an attached error at level error, fatal or
\* panic, the message is "{message}: {error text}", the error key is not in
\* context data, and every other field of the record is in context data.
C1_AsStated ==
    (Called /\ HasAttachedError /\ e.Level \in ErrorLevels) =>
        /\ ee.Message = e.Message \o ": " \o e.Data[ErrorKey].msg
        /\ ErrorKey \notin DOMAIN ContextData
        /\ \A k \in DOMAIN e.Data \ {ErrorKey} : k \in DOMAIN ContextData

\* C1 amended: for a record with an attached error at level error, fatal or
\* panic, the message is "{message}: {error text}", the error key is not in
\* context data, and every other field of the record is in context data
\* unless it is a recognized key that ToEntry moved to its dedicated field.
C1_ErrorFoldedIntoMessage ==
    (Called /\ HasAttachedError /\ e.Level \in ErrorLevels) =>
        /\ ee.Severity \in {"ERROR", "CRITICAL", "ALERT"}
        /\ ee.Message = e.Message \o ": " \o e.Data[ErrorKey].msg
        /\ ErrorKey \notin DOMAIN ContextData
        /\ \A k \in DOMAIN e.Data \ {ErrorKey} :
              k \in DOMAIN ContextData <=> ~Extracted(k)

C1_Witness ==
    /\ Called /\ HasAttachedError /\ e.Level = "fatal"
    /\ ee.Message = "my log entry: test error"
    /\ DOMAIN ContextData = {"foo"}

\* C2: for a record with an attached error at level debug, info or warning,
\* the message is the record's message and context data maps the error key to
\* the error's text.
C2_ErrorKeptBelowError ==
    (Called /\ HasAttachedError /\ e.Level \in {"debug", "info", "warning"}) =>
        /\ ee.Message = e.Message
        /\ ErrorKey \in DOMAIN ContextData
        /\ ContextData[ErrorKey] = [t |-> "string", s |-> e.Data[ErrorKey].msg]
        /\ Formatted =>
              out.json.o["context"].o["data"].o[ErrorKey]
                  = [j |-> "string", s |-> e.Data[ErrorKey].msg]

C2_Witness ==
    /\ Formatted /\ HasAttachedError /\ e.Level = "warning"
    /\ e.Message = "my log entry"
    /\ ContextData[ErrorKey] = StringVal("test error")
    /\ "foo" \in DOMAIN ContextData

\* C3: for a record at level debug, info or warning, or at a level the
\* severity table does not list, the Entry has no source location and no
\* report location, and the output has neither key.
C3_NoLocationBelowError ==
    (Called /\ e.Level \in {"debug", "info", "warning", "trace"}) =>
        /\ ee.SourceLocation.nil
        /\ ee.Context.val.ReportLocation.nil
        /\ Formatted =>
              /\ "sourceLocation" \notin DOMAIN out.json.o
              /\ "reportLocation" \notin DOMAIN out.json.o["context"].o

C3_Witness ==
    /\ Formatted /\ e.Level = "trace" /\ ee.Severity = ""
    /\ DOMAIN e.Data = {"foo", ErrorKey}
    /\ "context" \in DOMAIN out.json.o

\* C4 as stated: none of the keys trace, spanID, httpRequest and (with a
\* project id) logID is in context data, whatever the type of its value.
C4_AsStated ==
    Called =>
        \A k \in {KeyTrace, KeySpanID, KeyHTTPRequest}
                 \cup (IF f.ProjectID # "" THEN {KeyLogID} ELSE {}) :
            k \notin DOMAIN ContextData

\* C4 amended: a key trace, spanID or (with a project id) logID holding a
\* string, and a key httpRequest holding a *HTTPRequest, is not in context
\* data; its value is in the dedicated field of the Entry.
C4_RecognizedKeysLeaveData ==
    Called =>
        /\ \A k \in DOMAIN e.Data : Extracted(k) => k \notin DOMAIN ContextData
        /\ Extracted(KeyTrace) => ee.Trace = e.Data[KeyTrace].s
        /\ Extracted(KeySpanID) => ee.SpanID = e.Data[KeySpanID].s
        /\ Extracted(KeyHTTPRequest) =>
              /\ ee.HTTPRequest = [nil |-> FALSE, val |-> e.Data[KeyHTTPRequest].req]
              /\ ee.Context.val.HTTPRequest = ee.HTTPRequest
        /\ Extracted(KeyLogID) => ee.LogName # ""

C4_Witness ==
    /\ Called /\ Extracted(KeyLogID) /\ Extracted(KeyHTTPRequest)
    /\ ContextData = EmptyMap
    /\ ee.LogName # "" /\ ~ee.HTTPRequest.nil

\* C5 as stated: with a project id configured and a string under logID, the
\* log name of the Entry and of the output is the logID value itself, and
\* logID is not in context data.
C5_AsStated ==
    (Called /\ f.ProjectID # "" /\ KeyLogID \in DOMAIN e.Data
            /\ e.Data[KeyLogID].t = "string") =>
        /\ ee.LogName = e.Data[KeyLogID].s
        /\ KeyLogID \notin DOMAIN ContextData
        /\ Formatted => out.json.o["logName"] = [j |-> "string", s |-> e.Data[KeyLogID].s]

\* C6 as stated: for a record with string trace and spanID fields the output
\* carries them under "logging.googleapis.com/trace" and
\* "logging.googleapis.com/spanId", and when they are the record's only
\* fields the context is the empty object.
C6_AsStated ==
    (Formatted /\ Extracted(KeyTrace) /\ Extracted(KeySpanID)) =>
        /\ "logging.googleapis.com/trace" \in DOMAIN out.json.o
        /\ "logging.googleapis.com/spanId" \in DOMAIN out.json.o
        /\ out.json.o["logging.googleapis.com/spanId"]
              = [j |-> "string", s |-> e.Data[KeySpanID].s]
        /\ f.ProjectID = "" =>
              out.json.o["logging.googleapis.com/trace"]
                  = [j |-> "string", s |-> e.Data[KeyTrace].s]
        /\ (DOMAIN e.Data = {KeyTrace, KeySpanID} /\ e.Level \notin ErrorLevels) =>
              out.json.o["context"] = [j |-> "object", o |-> EmptyMap]

\* C7: the output always has the key context holding an object; when context
\* data is empty and neither a report location nor an HTTP request is set,
\* that object is the empty object.
C7_ContextAlwaysPresent ==
    Formatted =>
        /\ "context" \in DOMAIN out.json.o
        /\ out.json.o["context"].j = "object"
        /\ (/\ DOMAIN ContextData = {}
            /\ ee.Context.val.ReportLocation.nil
            /\ ee.Context.val.HTTPRequest.nil) =>
              out.json.o["context"] = [j |-> "object", o |-> EmptyMap]

C7_Witness ==
    /\ Formatted /\ e.Level = "info" /\ e.Message = "my log entry"
    /\ e.Data = EmptyMap
    /\ out.json.o["context"] = [j |-> "object", o |-> EmptyMap]
    /\ out.tail = "\n"

\* the stack errorOrigin walks in the last call
FullStack ==
    <<errorOriginFrame, ToEntryFrame>>
        \o (IF pc = "Format" THEN <<FormatFrame>> ELSE << >>)
        \o callers

\* the frames at offset 3 or beyond whose package, with the vendoring prefix
\* removed, equals no entry of the skip list (offset i is FullStack[i + 1])
Origins ==
    {i \in 3..(Len(FullStack) - 1) :
        \A j \in 1..Len(f.StackSkip) :
            StripVendor(FormatPlusK(FullStack[i + 1])) # f.StackSkip[j]}

\* the location of a frame
LocationOf(c) ==
    [FilePath |-> FormatPlusS(c), LineNumber |-> c.Line, FunctionName |-> FormatN(c)]

\* C8: for an entry at level error, fatal or panic, when the stack has a frame
\* at offset 3 or beyond whose package is not in the skip list, the source
\* location and the report location are the location of the innermost such
\* frame; with the wrapper's package in the skip list, an entry logged
\* through the wrapper reports the wrapper's caller.
C8_InnermostUnskippedFrame ==
    (Called /\ e.Level \in ErrorLevels /\ Origins # {}) =>
        LET i == CHOOSE i \in Origins : \A j \in Origins : i <= j
            loc == [nil |-> FALSE, val |-> LocationOf(FullStack[i + 1])]
        IN  /\ ee.SourceLocation = loc
            /\ ee.Context.val.ReportLocation = loc
            /\ (/\ callers = WrappedStack
                /\ \E j \in 1..Len(f.StackSkip) : f.StackSkip[j] = WrapperPkg
                /\ \A j \in 1..Len(f.StackSkip) : f.StackSkip[j] # "main") =>
                  loc.val = [FilePath |-> "app/main.go", LineNumber |-> 30,
                             FunctionName |-> "run"]

C8_Witness ==
    /\ Formatted /\ e.Level = "error" /\ callers = WrappedStack
    /\ f.StackSkip = <<LogrusPkg, WrapperPkg>>
    /\ ee.SourceLocation.val
          = [FilePath |-> "app/main.go", LineNumber |-> 30, FunctionName |-> "run"]
    /\ out.json.o["sourceLocation"] = out.json.o["context"].o["reportLocation"]

\* a JSON value that is null, "", 0 or {}
IsEmptyJson(v) ==
    \/ v.j = "null"
    \/ v.j = "string" /\ v.s = ""
    \/ v.j = "number" /\ v.n = 0
    \/ v.j = "object" /\ DOMAIN v.o = {}

\* no key of the object v, at any depth, holds an empty value (the values
\* under excepted keys are not judged themselves, their content is; the
\* fields of context.data are the caller's values and are not judged)
RECURSIVE NoEmptyValue(_, _)
NoEmptyValue(v, excepted) ==
    v.j = "object" =>
        \A k \in DOMAIN v.o :
            /\ k \notin excepted => ~IsEmptyJson(v.o[k])
            /\ k # "data" => NoEmptyValue(v.o[k], {})

\* C9 as stated: whatever the record and the configuration, no key of the
\* output other than context holds null, "", 0 or {}.
C9_AsStated ==
    Formatted => NoEmptyValue(out.json, {"context"})

\* C10 as stated: for an entry at level error, fatal or panic, when the stack
\* has no frame at offset 3 or beyond outside the skip list, formatting
\* succeeds and the Entry has neither source location nor report location;
\* when it has one, both are set to the same location.
C10_AsStated ==
    (Called /\ e.Level \in ErrorLevels) =>
        /\ Formatted => out.err = "nil"
        /\ IF Origins = {}
           THEN ee.SourceLocation.nil /\ ee.Context.val.ReportLocation.nil
           ELSE /\ ~ee.SourceLocation.nil
                /\ ee.Context.val.ReportLocation = ee.SourceLocation

\* the suffix of a package path after the last occurrence of the vendor
\* marker, the whole path when it has none
AfterLastVendor(pkg) ==
    LET i == StringsLastIndex(pkg, "/vendor/")
    IN  IF i = -1 THEN pkg ELSE Slice(pkg, i + Len("/vendor/"), Len(pkg))

\* C11 as stated: the skip list is compared with the suffix of the package
\* path after the last occurrence of "/vendor/", so a frame of a skip-listed
\* package vendored at any nesting depth is skipped: the location reported
\* for an entry at level error, fatal or panic is never such a frame's.
C11_AsStated ==
    (Called /\ e.Level \in ErrorLevels) =>
        \A i \in 3..(Len(FullStack) - 1) :
            skip(f, AfterLastVendor(FormatPlusK(FullStack[i + 1]))) =>
                ee.SourceLocation # [nil |-> FALSE, val |-> LocationOf(FullStack[i + 1])]

\* the record holds, under the recognized key k, a value of the wrong shape
WrongShape(k) ==
    /\ k \in DOMAIN e.Data
    /\ \/ k \in {KeyTrace, KeySpanID, KeyLogID} /\ e.Data[k].t # "string"
       \/ k = KeyHTTPRequest /\ e.Data[k].t # "*HTTPRequest"

\* the dedicated field of the recognized key k is unset in the Entry, and
\* absent from the output
FieldUnset(k) ==
    /\ k = KeyTrace => ee.Trace = ""
    /\ k = KeySpanID => ee.SpanID = ""
    /\ k = KeyLogID => ee.LogName = ""
    /\ k = KeyHTTPRequest => ee.HTTPRequest.nil /\ ee.Context.val.HTTPRequest.nil
    /\ Formatted =>
          /\ k = KeyTrace => "trace" \notin DOMAIN out.json.o
          /\ k = KeySpanID => "spanId" \notin DOMAIN out.json.o
          /\ k = KeyLogID => "logName" \notin DOMAIN out.json.o
          /\ k = KeyHTTPRequest =>
                /\ "httpRequest" \notin DOMAIN out.json.o
                /\ "httpRequest" \notin DOMAIN out.json.o["context"].o

RecognizedKeys == {KeyTrace, KeySpanID, KeyHTTPRequest, KeyLogID}

\* C12 as stated: for every recognized key holding a value of the wrong
\* shape, an error object included, the call does not fail, the dedicated
\* field is unset, and context data holds the key with the very value the
\* record holds.
C12_AsStated ==
    Called =>
        \A k \in RecognizedKeys :
            WrongShape(k) =>
                /\ out.err = "nil"
                /\ FieldUnset(k)
                /\ k \in DOMAIN ContextData
                /\ ContextData[k] = e.Data[k]

\* C12 amended: for every recognized key holding a value of the wrong shape,
\* the call does not fail, the dedicated field is unset, and context data
\* holds the key with the record's value, or with the error's text when the
\* value is an error object.
C12_WrongShapeStaysInData ==
    Called =>
        \A k \in RecognizedKeys :
            WrongShape(k) =>
                /\ out.err = "nil"
                /\ FieldUnset(k)
                /\ k \in DOMAIN ContextData
                /\ ContextData[k] = IF e.Data[k].t = "error"
                                    THEN [t |-> "string", s |-> e.Data[k].msg]
                                    ELSE e.Data[k]
                /\ Formatted =>
                      k \in DOMAIN out.json.o["context"].o["data"].o

C12_Witness ==
    /\ Formatted /\ out.err = "nil"
    /\ WrongShape(KeyTrace) /\ WrongShape(KeyHTTPRequest)
    /\ e.Data[KeyHTTPRequest] = ErrorVal("test error")
    /\ ContextData[KeyHTTPRequest] = StringVal("test error")
    /\ ContextData[KeyTrace] = e.Data[KeyTrace]
    /\ ee.Trace = "" /\ ee.HTTPRequest.nil

\* an Entry, and an output, with the timestamp left out
SansTime(ent) == [ent EXCEPT !.Timestamp = ""]
SansTimeJson(v) == IF v.j = "object" THEN JObj(Delete(v.o, "timestamp")) ELSE v

\* an Entry with the timestamp and both locations left out
SansTimeAndLocation(ent) ==
    [ent EXCEPT !.Timestamp = "",
                !.SourceLocation = NilPtr,
                !.Context.val.ReportLocation = NilPtr]

\* C13: a call of ToEntry or Format leaves the caller's record (its fields,
\* message and level) and the formatter configuration (service, version,
\* project id, skip list) as they were, whatever calls came before; a call
\* that follows another on the same record yields the same Entry, the
\* timestamp aside, and the locations aside when one call was ToEntry and
\* the other Format; Format after Format yields the same output, the
\* timestamp aside.
C13_RecordAndConfigUnchanged ==
    [][(pc' \in {"ToEntry", "Format"}) =>
          /\ f' = f
          /\ e' = e
          /\ pc \in {"ToEntry", "Format"} =>
                /\ SansTimeAndLocation(ee') = SansTimeAndLocation(ee)
                /\ pc' = pc => SansTime(ee') = SansTime(ee)
                /\ (pc = "Format" /\ pc' = "Format") =>
                      /\ SansTimeJson(out'.json) = SansTimeJson(out.json)
                      /\ out'.tail = out.tail
                      /\ out'.err = out.err]_vars

C13_Witness ==
    /\ Formatted /\ e.Level = "error" /\ e.Message = "my log entry"
    /\ e.Data = (ErrorKey :> ErrorVal("test error")) @@ (KeyTrace :> StringVal("my-trace"))
    /\ ContextData = EmptyMap
    /\ returned.Context.val.Data # entry.Data
    /\ ee.Timestamp = Times[2]
    /\ ee.Trace = "my-trace"
    /\ ee.Message = "my log entry: test error"
    /\ f.Service = "test" /\ f.StackSkip = <<LogrusPkg, WrapperPkg>>

====
